---- MODULE Spec2Model ----
(***************************************************************************)
(* A model of the module loader and dynamic-import scheduler of src/js.cc. *)
(*                                                                         *)
(* Paths and import specifiers are sequences of path elements: the path    *)
(* /app/lib/helpers.js is <<"/", "app", "lib", "helpers.js">> and the      *)
(* specifier ../util.js is <<"..", "util.js">>.  The script engine (v8),   *)
(* the filesystem, the task queue and the host delegate are the            *)
(* collaborators of js.cc; they are modelled by what js.cc observes of     *)
(* them.                                                                   *)
(***************************************************************************)
EXTENDS Naturals, Sequences, FiniteSets, TLC

\* Bound on the number of entry-point calls (LoadMainModule calls and
\* dynamic import requests) of one behaviour.
MaxOps == 2

\* Bound on the depth of the LoadStack; a walk that goes deeper is recorded
\* as a walk that does not terminate.
MaxDepth == 5

VARIABLES
    fs,                  \* the files on disk: path -> [kind, imports]
    base_path_,          \* Js::base_path_
    modules_,            \* Js::modules_: path -> module (script id)
    module_path_by_id_,  \* Js::module_path_by_id_: script id -> path
    mods,                \* the engine's modules, indexed by script id
    dynamic_imports_,    \* Js::dynamic_imports_: path -> resolver
    resolvers,           \* the engine's promise resolvers, indexed by handle
    task_queue_,         \* the tasks posted to Js::task_queue_, in post order
    mainCalls,           \* number of LoadMainModule calls made
    mainLoaded,          \* number of Delegate::OnMainModuleLoaded calls
    last,                \* what the last handler did and reported
    ops,                 \* number of entry-point calls made
    crashed,             \* the ASSERT that failed, or "none"
    destroyed            \* Js::~Js has run

vars == <<fs, base_path_, modules_, module_path_by_id_, mods, dynamic_imports_,
          resolvers, task_queue_, mainCalls, mainLoaded, last, ops, crashed,
          destroyed>>

----------------------------------------------------------------------------
\* Paths (std::filesystem::path, lexically)

Last(s) == s[Len(s)]

Front(s) == SubSeq(s, 1, Len(s) - 1)

IsAbsolute(p) == Len(p) >= 1 /\ p[1] = "/"

\* path::remove_filename: the path without its last element (a root alone
\* has no filename).
RemoveFilename(p) ==
    IF Len(p) = 0 \/ p = <<"/">> THEN p ELSE Front(p)

\* operator/ of std::filesystem::path: an absolute right side replaces the
\* left side.
Join(dir, rel) == IF IsAbsolute(rel) THEN rel ELSE dir \o rel

\* One step of path::lexically_normal: element s appended to the normal
\* path acc.
NormalStep(acc, s) ==
    IF s = "." THEN acc
    ELSE IF s = ".."
         THEN IF Len(acc) = 0 \/ Last(acc) = ".." THEN Append(acc, "..")
              ELSE IF Last(acc) = "/" THEN acc
              ELSE Front(acc)
    ELSE Append(acc, s)

RECURSIVE NormalFrom(_, _, _)
NormalFrom(acc, p, i) ==
    IF i > Len(p) THEN acc ELSE NormalFrom(NormalStep(acc, p[i]), p, i + 1)

\* path::lexically_normal
LexicallyNormal(p) == NormalFrom(<<>>, p, 1)

RECURSIVE CommonPrefixLen(_, _, _)
CommonPrefixLen(p, q, n) ==
    IF n < Len(p) /\ n < Len(q) /\ p[n + 1] = q[n + 1]
    THEN CommonPrefixLen(p, q, n + 1) ELSE n

\* std::filesystem::current_path(), the directory a relative path is read
\* from
Cwd == <<"/", "app">>

\* std::filesystem::absolute followed by lexically_normal (the model has no
\* symbolic links, so this is weakly_canonical)
Absolute(p) == IF IsAbsolute(p) THEN LexicallyNormal(p) ELSE LexicallyNormal(Cwd \o p)

\* path::lexically_relative: the elements of base after the common prefix
\* become "..", followed by the rest of p.
LexicallyRelative(p, base) ==
    IF IsAbsolute(p) # IsAbsolute(base) THEN <<>>
    ELSE LET n == CommonPrefixLen(p, base, 0)
             ups == [i \in 1..(Len(base) - n) |-> ".."]
             rest == SubSeq(p, n + 1, Len(p))
         IN IF Len(ups) = 0 /\ Len(rest) = 0 THEN <<".">> ELSE ups \o rest

\* std::filesystem::relative(p, base)
Relative(p, base) == LexicallyRelative(Absolute(p), Absolute(base))

----------------------------------------------------------------------------
\* Names

\* StartsWith(name, "./") and StartsWith(name, "../") on a name given by its
\* elements: the first element is the prefix's and a separator follows it.
StartsWithDir(name, first) == Len(name) >= 2 /\ name[1] = first

\* The path elements of the model whose text begins with "--".
DashElements == {"--console", "--welcome", "--bogus"}

\* name.substr(0, 2) == "--"
HasDashPrefix(name) == Len(name) >= 1 /\ name[1] \in DashElements

IsValidImportLoose(name) == Len(name) >= 1

\* IsValidImport: StartsWith(name, "./") || StartsWith(name, "../")
IsValidImport(name) == StartsWithDir(name, ".") \/ StartsWithDir(name, "..")

NoMsg == [kind |-> "none", prefix |-> "", name |-> <<>>, suffix |-> "", chain |-> <<>>]

\* MakeInvalidImportError: the text around the name, and the name as given.
MakeInvalidImportError(name) ==
    [kind |-> "InvalidImportSpecifier", prefix |-> "Invalid module name: '",
     name |-> name,
     suffix |-> "'. Valid imports must begin with ./ or ../", chain |-> <<>>]

AppendModulePathOutermostFirst(base, paths) ==
    [i \in 1..Len(paths) |->
        [tag |-> IF i = 1 THEN "loading" ELSE "from",
         path |-> Relative(paths[i], base)]]

\* The lines AppendModulePath writes: paths read from the back.
AppendModulePath(base, paths) ==
    [i \in 1..Len(paths) |->
        [tag |-> IF i = 1 THEN "loading" ELSE "from",
         path |-> Relative(paths[Len(paths) + 1 - i], base)]]

----------------------------------------------------------------------------
\* The files on disk and the embedded sources

MainJs == <<"/", "app", "main.js">>
UtilJs == <<"/", "app", "util.js">>
HelpersJs == <<"/", "app", "lib", "helpers.js">>

Files == {MainJs, UtilJs, HelpersJs}

\* What a file is:
\*   "missing"  it cannot be read
\*   "syntax"   it is read and does not compile
\*   "nolink"   it compiles and one of its import bindings does not resolve
\*   "throws"   its body throws when it is evaluated
\*   "rejects"  its evaluation ends in a rejected promise
\*   "pends"    its evaluation ends in a pending promise (top-level await)
\*   "imports"  its body calls import("./util.js") and completes
\*   "ok"       it loads, links and evaluates without any of these
LoadKinds == {"missing", "syntax"}
ScriptKinds == {"nolink", "throws", "rejects", "pends", "imports"}

U == <<".", "util.js">>
H == <<".", "lib", "helpers.js">>
Bare == <<"lodash">>

Graph(m, u, h) == (MainJs :> m) @@ (UtilJs :> u) @@ (HelpersJs :> h)

\* The static import graphs of the model: the import list of each file, in
\* source order.
Graphs ==
    { Graph(<<U>>, <<H>>, <<>>),                         \* a chain
      Graph(<<U, H>>, <<H>>, <<>>),                      \* a diamond
      Graph(<<U>>, << <<".", "main.js">> >>, <<>>),      \* a cycle of two
      Graph(<< <<".", "main.js">>, U >>, <<>>, <<>>),    \* a self import
      Graph(<<U>>, <<H>>, << <<"..", "util.js">>, <<"..", "main.js">> >>),
      Graph(<<Bare, U>>, <<>>, <<>>),                    \* an invalid specifier first
      Graph(<<U, H>>, <<H, Bare>>, <<>>),                \* one below, after a valid one
      Graph(<< <<"--console">> >>, <<>>, <<>>),          \* a virtual token as specifier
      Graph(<<U, <<"util.js">> >>, <<>>, <<>>) }         \* a bare name of a loaded file

ScriptGraphs ==
    { Graph(<<>>, <<>>, <<>>), Graph(<<U>>, <<H>>, <<>>) }

World(g, f, kind) ==
    [p \in Files |-> [kind |-> IF p = f THEN kind ELSE "ok", imports |-> g[p]]]

\* The worlds of the model: an import graph in which at most one file is
\* not "ok".
Worlds ==
    {World(g, MainJs, "ok") : g \in Graphs}
    \cup {World(g, f, k) : g \in Graphs, f \in {UtilJs, HelpersJs}, k \in LoadKinds}
    \cup {World(g, f, k) : g \in ScriptGraphs, f \in {MainJs, UtilJs}, k \in ScriptKinds}

BasePaths == { <<"/", "app">>, <<"/", "app", "lib">> }

\* ReadFile(path, &content, &error)
ReadFile(files, path) ==
    Absolute(path) \in DOMAIN files /\ files[Absolute(path)].kind # "missing"

\* A source text: where it comes from, what it is, and the import
\* specifiers it declares.
FileSource(files, path) ==
    [origin |-> "file", name |-> path, kind |-> files[Absolute(path)].kind,
     imports |-> files[Absolute(path)].imports]

\* GzipUncompress(kEmbeddedConsoleSource), GzipUncompress(kEmbeddedWelcomeSource)
EmbeddedConsoleSource ==
    [origin |-> "embedded", name |-> <<"--console">>, kind |-> "ok", imports |-> <<>>]

EmbeddedWelcomeSource ==
    [origin |-> "embedded", name |-> <<"--welcome">>, kind |-> "ok", imports |-> <<>>]

NoSource == [origin |-> "none", name |-> <<>>, kind |-> "missing", imports |-> <<>>]

----------------------------------------------------------------------------
\* The loader.  A walk threads a record st through the calls:
\*   modules, byId  modules_ and module_path_by_id_
\*   mods           the engine's modules (index = script id)
\*   reads          the ReadFile calls made, each with the specifier followed
\*   exc            the exception pending in the isolate (NoMsg: none)
\*   src            the source LoadModuleSource returned
\*   ret            the module returned (0: an empty handle)
\*   ran            the modules whose bodies the walk's evaluation ran
\*   diverged       the walk went deeper than MaxDepth
\*   failed         the ASSERT that failed ("none": none)

NoSpec == <<>>

StartWalk(files, base) ==
    [files |-> files, base |-> base,
     modules |-> modules_, byId |-> module_path_by_id_, mods |-> mods,
     reads |-> <<>>, exc |-> NoMsg, src |-> NoSource, ret |-> 0, ran |-> {},
     diverged |-> FALSE, failed |-> "none"]

\* Js::ThrowError, followed by the return of an empty handle
ThrowError(st, msg) == [st EXCEPT !.exc = msg, !.ret = 0, !.src = NoSource]

LoadModuleSourceReadFirst(st, path, paths, via) ==
    LET st1 == [st EXCEPT !.reads = Append(@, [path |-> path, via |-> via])]
    IN IF path = <<"--console">> THEN [st1 EXCEPT !.src = EmbeddedConsoleSource, !.ret = 1]
       ELSE IF path = <<"--welcome">> THEN [st1 EXCEPT !.src = EmbeddedWelcomeSource, !.ret = 1]
       ELSE IF ReadFile(st.files, path)
            THEN [st1 EXCEPT !.src = FileSource(st.files, path), !.ret = 1]
       ELSE ThrowError(st1, [kind |-> "SourceUnavailable", prefix |-> "",
                             name |-> path, suffix |-> "\n",
                             chain |-> AppendModulePath(st.base, paths)])

\* Js::LoadModuleSource; via is the specifier that led to path (NoSpec for
\* the root of the walk).
LoadModuleSource(st, path, paths, via) ==
    IF path = <<"--console">> THEN [st EXCEPT !.src = EmbeddedConsoleSource, !.ret = 1]
    ELSE IF path = <<"--welcome">> THEN [st EXCEPT !.src = EmbeddedWelcomeSource, !.ret = 1]
    ELSE IF HasDashPrefix(path)
         THEN ThrowError(st, [kind |-> "UnknownVirtualModule",
                              prefix |-> "Invalid module name: ", name |-> path,
                              suffix |-> "", chain |-> <<>>])
    ELSE LET st1 == [st EXCEPT !.reads = Append(@, [path |-> path, via |-> via])]
         IN IF ReadFile(st.files, path)
            THEN [st1 EXCEPT !.src = FileSource(st.files, path), !.ret = 1]
            ELSE ThrowError(st1, [kind |-> "SourceUnavailable", prefix |-> "",
                                  name |-> path, suffix |-> "\n",
                                  chain |-> AppendModulePath(st.base, paths)])

\* A module the engine has just compiled: not instantiated, not evaluated.
NewModule(path, source) ==
    [path |-> path, source |-> source.origin, kind |-> source.kind,
     requests |-> source.imports,
     status |-> "uninstantiated", eval |-> "none", conts |-> <<>>]

\* Js::CompileModule: the script id of the new module is the next free one.
CompileModule(st, source, path, paths) ==
    IF source.kind # "syntax"
    THEN [st EXCEPT !.mods = Append(@, NewModule(path, source)),
                    !.ret = Len(st.mods) + 1]
    ELSE ThrowError(st, [kind |-> "CompileError", prefix |-> "", name |-> path,
                         suffix |-> "\n", chain |-> AppendModulePath(st.base, paths)])

IsLoadedNever(st, path) == FALSE

\* modules_.find(path.string()) != modules_.end()
IsLoaded(st, path) == path \in DOMAIN st.modules

RegisterModuleSkipped(st, path, id) == st

RegisterModulePathOnly(st, path, id) ==
    [st EXCEPT !.modules = (path :> id) @@ @]

\* The two assignments that register a compiled module, after the ASSERT
\* that its script id is new.
RegisterModule(st, path, id) ==
    IF id \in DOMAIN st.byId
    THEN [st EXCEPT !.failed = "LoadModuleTree: script id already registered", !.ret = 0]
    ELSE [st EXCEPT !.modules = (path :> id) @@ @, !.byId = (id :> path) @@ @]

RECURSIVE LoadModuleTree(_, _, _, _)
RECURSIVE LoadRequests(_, _, _, _, _)

\* Js::LoadModuleTree from the loop on: st holds the registered module id.
WalkRequests(st, id, path, paths) ==
    IF st.failed # "none" THEN st
    ELSE LoadRequests(st, id, RemoveFilename(path), 1, paths)

\* Js::LoadModuleTree after CompileModule returned st.ret
RegisterCompiled(st, path, paths) ==
    IF st.ret = 0 THEN st
    ELSE WalkRequests(RegisterModule(st, path, st.ret), st.ret, path, paths)

\* Js::LoadModuleTree after LoadModuleSource returned st.src
CompileLoaded(st, path, paths) ==
    IF st.ret = 0 THEN st
    ELSE RegisterCompiled(CompileModule(st, st.src, path, paths), path, paths)

\* Js::LoadModuleTree
LoadModuleTree(st, path, paths, via) ==
    IF Len(paths) > MaxDepth THEN [st EXCEPT !.diverged = TRUE, !.ret = 0]
    ELSE IF IsLoaded(st, path) THEN [st EXCEPT !.ret = st.modules[path]]
    ELSE CompileLoaded(LoadModuleSource(st, path, paths, via), path, paths)

AfterRequestCleanup(r, id, dir, i, paths) ==
    IF r.ret = 0 \/ r.failed # "none" \/ r.diverged
    THEN [r EXCEPT !.ret = 0,
                   !.modules = [q \in DOMAIN @ \ {r.mods[id].path} |-> @[q]],
                   !.byId = [j \in DOMAIN @ \ {id} |-> @[j]]]
    ELSE LoadRequests(r, id, dir, i + 1, paths)

\* The loop of Js::LoadModuleTree after the recursive call for request i
\* returned r: paths is popped, and a failure ends the walk.
AfterRequest(r, id, dir, i, paths) ==
    IF r.ret = 0 \/ r.failed # "none" \/ r.diverged
    THEN [r EXCEPT !.ret = 0]
    ELSE LoadRequests(r, id, dir, i + 1, paths)

\* The path a module request resolves to: (dir / spec).lexically_normal()
Subpath(dir, spec) == LexicallyNormal(Join(dir, spec))

\* The loop of Js::LoadModuleTree over the module requests of module id,
\* from request i on.
LoadRequests(st, id, dir, i, paths) ==
    IF i > Len(st.mods[id].requests) THEN [st EXCEPT !.ret = id]
    ELSE IF ~IsValidImport(st.mods[id].requests[i])
         THEN ThrowError(st, MakeInvalidImportError(st.mods[id].requests[i]))
    ELSE IF IsLoaded(st, Subpath(dir, st.mods[id].requests[i]))
         THEN LoadRequests(st, id, dir, i + 1, paths)
    ELSE AfterRequest(
             LoadModuleTree(st, Subpath(dir, st.mods[id].requests[i]),
                            Append(paths, Subpath(dir, st.mods[id].requests[i])),
                            st.mods[id].requests[i]),
             id, dir, i, paths)

----------------------------------------------------------------------------
\* Instantiation and evaluation

\* Js::ResolveModule, the callback the engine calls for a module request of
\* module referrer: the module it returns, or the ASSERT that failed.
ResolveModule(st, spec, referrer) ==
    IF referrer \notin DOMAIN st.byId
    THEN [failed |-> "ResolveModule: referrer id not in module_path_by_id_", ret |-> 0]
    ELSE IF Subpath(RemoveFilename(st.byId[referrer]), spec) \notin DOMAIN st.modules
         THEN [failed |-> "ResolveModule: path not in modules_", ret |-> 0]
    ELSE [failed |-> "none",
          ret |-> st.modules[Subpath(RemoveFilename(st.byId[referrer]), spec)]]

\* The callback's answers to the module requests of module id, in order.
ResolveRequests(st, id) ==
    [i \in 1..Len(st.mods[id].requests) |->
        ResolveModule(st, st.mods[id].requests[i], id)]

RECURSIVE PrepareInstantiate(_, _, _)

\* The engine's walk over the modules to link, after the requests of
\* module id were resolved to rs.
PrepareResolved(st, work, seen, id, rs) ==
    IF \E i \in DOMAIN rs : rs[i].failed # "none"
    THEN [failed |-> rs[CHOOSE i \in DOMAIN rs :
                           /\ rs[i].failed # "none"
                           /\ \A j \in 1..(i - 1) : rs[j].failed = "none"].failed,
          seen |-> seen]
    ELSE PrepareInstantiate(st, Tail(work) \o [i \in DOMAIN rs |-> rs[i].ret],
                            seen \cup {id})

\* The engine's walk over the modules to link: every module not yet
\* instantiated has each of its requests resolved by the callback, and the
\* modules returned are walked in turn.
PrepareInstantiate(st, work, seen) ==
    IF work = <<>> THEN [failed |-> "none", seen |-> seen]
    ELSE IF Head(work) \in seen \/ st.mods[Head(work)].status # "uninstantiated"
         THEN PrepareInstantiate(st, Tail(work), seen)
    ELSE PrepareResolved(st, work, seen, Head(work), ResolveRequests(st, Head(work)))

\* The end of module->InstantiateModule: the modules prep.seen are linked
\* together, or none is when a binding of one does not resolve.
LinkPrepared(st, root, prep) ==
    IF prep.failed # "none" THEN [st EXCEPT !.failed = prep.failed, !.ret = 0]
    ELSE IF \E i \in prep.seen : st.mods[i].kind = "nolink"
         THEN ThrowError(st, [kind |-> "InstantiationError", prefix |-> "",
                              name |-> st.mods[root].path, suffix |-> "",
                              chain |-> <<>>])
    ELSE [st EXCEPT !.ret = root,
                    !.mods = SubSeq([i \in DOMAIN st.mods |->
                                       IF i \in prep.seen
                                       THEN [st.mods[i] EXCEPT !.status = "instantiated"]
                                       ELSE st.mods[i]],
                                    1, Len(st.mods))]

\* module->InstantiateModule(context, ResolveModule)
InstantiateModule(st, root) ==
    LinkPrepared(st, root, PrepareInstantiate(st, <<root>>, {}))

RECURSIVE EvaluationSet(_, _, _)
\* The modules an evaluation runs: the root and the modules it requests,
\* as far as they have not been evaluated.
EvaluationSet(st, work, seen) ==
    IF work = <<>> THEN seen
    ELSE IF Head(work) = 0 \/ Head(work) \in seen \/ st.mods[Head(work)].eval # "none"
         THEN EvaluationSet(st, Tail(work), seen)
    ELSE EvaluationSet(
             st,
             Tail(work) \o [i \in 1..Len(st.mods[Head(work)].requests) |->
                               ResolveModule(st, st.mods[Head(work)].requests[i],
                                             Head(work)).ret],
             seen \cup {Head(work)})

\* How the evaluation of the modules of set ends: the call fails with an
\* exception ("threw"), or it returns a promise that is rejected, pending or
\* fulfilled.
Outcome(st, set) ==
    IF \E i \in set : st.mods[i].kind = "throws" THEN "threw"
    ELSE IF \E i \in set : st.mods[i].kind = "rejects" THEN "rejected"
    ELSE IF \E i \in set : st.mods[i].kind = "pends" THEN "pending"
    ELSE "fulfilled"

\* The first evaluation of root: the bodies of the modules of set run, and
\* the evaluation ends with outcome.
EvaluateSet(st, root, set, outcome) ==
    [st EXCEPT
       !.ran = set,
       !.mods = SubSeq([i \in DOMAIN st.mods |->
                          IF i \notin set THEN st.mods[i]
                          ELSE [st.mods[i] EXCEPT
                                  !.status = "evaluated",
                                  !.eval = IF i = root \/ outcome \in {"threw", "rejected"}
                                           THEN outcome
                                           ELSE IF st.mods[i].kind = "pends"
                                                THEN "pending" ELSE "fulfilled"]],
                       1, Len(st.mods))]

\* module->Evaluate(context): the first evaluation runs the bodies of the
\* modules not yet evaluated; a later one returns what the first left.
Evaluate(st, root) ==
    IF st.mods[root].eval # "none" THEN st
    ELSE EvaluateSet(st, root, EvaluationSet(st, <<root>>, {}),
                     Outcome(st, EvaluationSet(st, <<root>>, {})))

\* The exception of a failed evaluation of module root of the table ms.
EvalError(ms, root) ==
    [kind |-> IF ms[root].eval = "threw" THEN "RuntimeException"
              ELSE "UnhandledRejection",
     prefix |-> "", name |-> ms[root].path, suffix |-> "", chain |-> <<>>]

HandlePromiseNotifyAlways(st, root, is_main_module) ==
    IF st.mods[root].eval = "rejected"
    THEN [st |-> ThrowError(st, EvalError(st.mods, root)), notified |-> 0]
    ELSE IF st.mods[root].eval = "pending"
         THEN [st |-> [st EXCEPT !.ret = root, !.mods[root].conts = Append(@, "main")],
               notified |-> 0]
    ELSE [st |-> [st EXCEPT !.ret = root], notified |-> 1]

\* The part of Js::LoadModuleByPath after the evaluation call returned a
\* promise.  notified counts the OnMainModuleLoaded calls.
HandlePromise(st, root, is_main_module) ==
    IF st.mods[root].eval = "rejected"
    THEN [st |-> ThrowError(st, EvalError(st.mods, root)), notified |-> 0]
    ELSE IF st.mods[root].eval = "pending"
         THEN [st |-> [st EXCEPT !.ret = root,
                                 !.mods[root].conts =
                                     Append(@, IF is_main_module THEN "main" ELSE "other")],
               notified |-> 0]
    ELSE [st |-> [st EXCEPT !.ret = root],
          notified |-> IF is_main_module THEN 1 ELSE 0]

\* Js::LoadModuleByPath after module->Evaluate
UseResult(st, root, is_main_module) ==
    IF st.mods[root].eval = "threw"
    THEN [st |-> ThrowError(st, EvalError(st.mods, root)), notified |-> 0]
    ELSE HandlePromise(st, root, is_main_module)

\* Js::LoadModuleByPath after module->InstantiateModule
EvaluateLinked(st, root, is_main_module) ==
    IF st.ret = 0 \/ st.failed # "none" THEN [st |-> st, notified |-> 0]
    ELSE UseResult(Evaluate(st, root), root, is_main_module)

\* Js::LoadModuleByPath after LoadModuleTree
InstantiateLoaded(st, is_main_module) ==
    IF st.ret = 0 \/ st.failed # "none" \/ st.diverged
    THEN [st |-> st, notified |-> 0]
    ELSE EvaluateLinked(InstantiateModule(st, st.ret), st.ret, is_main_module)

\* Js::LoadModuleByPath
LoadModuleByPath(st, path, is_main_module) ==
    InstantiateLoaded(LoadModuleTree(st, path, <<path>>, NoSpec), is_main_module)

----------------------------------------------------------------------------
\* Dynamic imports

\* The resource name of a script run by Js::ExecuteScript
Console == <<"<console>">>

PendingPromise(path) == [state |-> "pending", path |-> path, value |-> 0, err |-> NoMsg]

\* The state the scheduler works on, taken from the variables.
StartScheduler ==
    [imports |-> dynamic_imports_, resolvers |-> resolvers, queue |-> task_queue_,
     promise |-> 0, path |-> <<>>, posted |-> FALSE, failed |-> "none"]

\* TaskQueue::Post: the task goes to the back of the queue.
Post(queue, task) == Append(queue, task)

NextTaskNewest(queue) == queue[Len(queue)]

\* The task the queue runs next: the one posted first.
NextTask(queue) == Head(queue)

\* The queue without the task it runs next
RemainingTasks(queue) == Tail(queue)

IsImportingNever(d, path) == FALSE

\* dynamic_imports_.find(path_str) != dynamic_imports_.end()
IsImporting(d, path) == path \in DOMAIN d.imports

\* The directory a dynamic import is resolved against
ReferrerDir(base, ref) == IF ref = Console THEN base ELSE RemoveFilename(ref)

\* Js::ImportDynamic(referrer, specifier) from the lookup of path on
StoreAndPost(d, path) ==
    IF IsImporting(d, path)
    THEN [d EXCEPT !.promise = d.imports[path], !.path = path, !.posted = FALSE]
    ELSE [d EXCEPT !.resolvers = Append(@, PendingPromise(path)),
                   !.imports = (path :> (Len(d.resolvers) + 1)) @@ @,
                   !.queue = Post(@, path),
                   !.promise = Len(d.resolvers) + 1, !.path = path, !.posted = TRUE]

ImportDynamicRequestUnchecked(d, modules, base, ref, spec) ==
    StoreAndPost(d, Subpath(ReferrerDir(base, ref), spec))

ImportDynamicRequestEager(d, modules, base, ref, spec) ==
    IF IsValidImport(spec) /\ Subpath(ReferrerDir(base, ref), spec) \in DOMAIN modules
    THEN [d EXCEPT !.resolvers =
                       Append(@, [state |-> "fulfilled",
                                  path |-> Subpath(ReferrerDir(base, ref), spec),
                                  value |-> modules[Subpath(ReferrerDir(base, ref), spec)],
                                  err |-> NoMsg]),
                   !.promise = Len(d.resolvers) + 1,
                   !.path = Subpath(ReferrerDir(base, ref), spec), !.posted = FALSE]
    ELSE StoreAndPost(d, Subpath(ReferrerDir(base, ref), spec))

\* Js::ImportDynamic(referrer, specifier): ref is the referrer's resource
\* name, modules the registry at the time of the call.
ImportDynamicRequest(d, modules, base, ref, spec) ==
    IF ~IsValidImport(spec)
    THEN [d EXCEPT !.resolvers = Append(@, [state |-> "rejected", path |-> <<>>,
                                            value |-> 0,
                                            err |-> MakeInvalidImportError(spec)]),
                   !.promise = Len(d.resolvers) + 1, !.path = <<>>, !.posted = FALSE]
    ELSE IF ref # Console /\ ref \notin DOMAIN modules
         THEN [d EXCEPT !.failed = "ImportDynamic: referrer not in modules_"]
    ELSE StoreAndPost(d, Subpath(ReferrerDir(base, ref), spec))

\* The specifier a body of kind "imports" passes to import()
BodyImport == <<".", "util.js">>

RECURSIVE RequestsWhileEvaluating(_, _, _)
\* The import() calls of the bodies an evaluation ran, in the order of the
\* script ids from id on; the referrer of each is the module that calls.
RequestsWhileEvaluating(d, st, id) ==
    IF id > Len(st.mods) \/ d.failed # "none" THEN d
    ELSE IF id \in st.ran /\ st.mods[id].kind = "imports"
         THEN RequestsWhileEvaluating(
                  ImportDynamicRequest(d, st.modules, st.base, st.mods[id].path, BodyImport),
                  st, id + 1)
    ELSE RequestsWhileEvaluating(d, st, id + 1)

\* resolver->Reject and resolver->Resolve: a settled promise stays as it is.
Reject(rs, h, exc) ==
    IF rs[h].state = "pending"
    THEN [rs EXCEPT ![h].state = "rejected", ![h].err = exc] ELSE rs

Resolve(rs, h, module) ==
    IF rs[h].state = "pending"
    THEN [rs EXCEPT ![h].state = "fulfilled", ![h].value = module] ELSE rs

----------------------------------------------------------------------------
\* The inputs of the model

MainNames ==
    { <<"main.js">>, <<"util.js">>, <<"--console">>, <<"--welcome">>, <<"--bogus">> }

DynSpecs ==
    { U, <<".", "lib", "..", "util.js">>, H, <<".", "main.js">>, Bare, <<"--console">> }

\* What the last handler did: the path it loaded or resolved, whether it
\* got a module (ok), the exception it caught, what it reported to the
\* delegate (Delegate::OnJavascriptException), how often it called
\* Delegate::OnMainModuleLoaded, the files it read, the promise it returned
\* or settled, whether it posted a task, the module it got and the modules
\* it compiled.
NoLast ==
    [op |-> "none", path |-> <<>>, spec |-> NoSpec, ok |-> FALSE, exc |-> NoMsg,
     reported |-> <<>>, notified |-> 0, reads |-> <<>>, promise |-> 0,
     posted |-> FALSE, module |-> 0, compiled |-> {}]

Init ==
    /\ fs \in Worlds
    /\ base_path_ \in BasePaths
    /\ modules_ = <<>>
    /\ module_path_by_id_ = <<>>
    /\ mods = <<>>
    /\ dynamic_imports_ = <<>>
    /\ resolvers = <<>>
    /\ task_queue_ = <<>>
    /\ mainCalls = 0
    /\ mainLoaded = 0
    /\ last = NoLast
    /\ ops = 0
    /\ crashed = "none"
    /\ destroyed = FALSE

\* The ASSERT that fails in a load, if one does.
FailedAssert(r, d) ==
    IF r.st.diverged THEN "LoadModuleTree: recursion without end"
    ELSE IF r.st.failed # "none" THEN r.st.failed
    ELSE IF d.failed # "none" THEN d.failed
    ELSE IF r.st.ret = 0 /\ r.st.exc = NoMsg THEN "ASSERT(try_catch.HasCaught())"
    ELSE "none"

\* A failed ASSERT ends the process: nothing runs after it.
Crash(what, op, path) ==
    /\ crashed' = what
    /\ last' = [NoLast EXCEPT !.op = op, !.path = path]
    /\ mainCalls' = IF op = "LoadMainModule" THEN mainCalls + 1 ELSE mainCalls
    /\ UNCHANGED <<fs, base_path_, modules_, module_path_by_id_, mods,
                   dynamic_imports_, resolvers, task_queue_, mainLoaded, destroyed>>

\* name.substr(0, 2) == "--" ? name : (base_path_ / name).lexically_normal()
MainModulePath(base, name) ==
    IF HasDashPrefix(name) THEN name ELSE LexicallyNormal(Join(base, name))

\* The OnMainModuleLoaded calls of Js::LoadMainModule: its own when the
\* module is empty, else those of LoadModuleByPath.
MainNotified(r) == IF r.st.ret = 0 THEN 1 ELSE r.notified

\* The ReportException call of Js::LoadMainModule
MainReported(r) == IF r.st.ret = 0 THEN <<r.st.exc>> ELSE <<>>

\* Js::LoadMainModule after LoadModuleByPath returned r; d holds what the
\* import() calls of the evaluated bodies left.
FinishMain(path, r, d) ==
    IF FailedAssert(r, d) # "none" THEN Crash(FailedAssert(r, d), "LoadMainModule", path)
    ELSE /\ modules_' = r.st.modules
         /\ module_path_by_id_' = r.st.byId
         /\ mods' = r.st.mods
         /\ dynamic_imports_' = d.imports
         /\ resolvers' = d.resolvers
         /\ task_queue_' = d.queue
         /\ mainCalls' = mainCalls + 1
         /\ mainLoaded' = mainLoaded + MainNotified(r)
         /\ last' = [NoLast EXCEPT !.op = "LoadMainModule", !.path = path,
                                   !.ok = r.st.ret # 0, !.exc = r.st.exc,
                                   !.reported = MainReported(r),
                                   !.notified = MainNotified(r), !.reads = r.st.reads,
                                   !.promise = d.promise, !.posted = d.posted,
                                   !.module = r.st.ret,
                                   !.compiled = DOMAIN r.st.mods \ DOMAIN mods]
         /\ crashed' = "none"
         /\ UNCHANGED <<fs, base_path_, destroyed>>

MainLoadedBy(path, r) ==
    FinishMain(path, r, RequestsWhileEvaluating(StartScheduler, r.st, 1))

\* Js::LoadMainModule(name)
LoadMainModule(name) ==
    /\ crashed = "none" /\ ~destroyed
    /\ ops < MaxOps
    /\ ops' = ops + 1
    /\ MainLoadedBy(MainModulePath(base_path_, name),
                    LoadModuleByPath(StartWalk(fs, base_path_),
                                     MainModulePath(base_path_, name), TRUE))

\* The referrers a dynamic import request can name: the console script and
\* the modules compiled so far.
Referrers == {Console} \cup {mods[i].path : i \in DOMAIN mods}

\* Js::ImportDynamic(referrer, specifier) after the request left d
FinishRequest(ref, spec, d) ==
    IF d.failed # "none" THEN Crash(d.failed, "ImportDynamic", ref)
    ELSE /\ dynamic_imports_' = d.imports
         /\ resolvers' = d.resolvers
         /\ task_queue_' = d.queue
         /\ last' = [NoLast EXCEPT !.op = "ImportDynamic", !.path = d.path,
                                   !.spec = spec, !.ok = IsValidImport(spec),
                                   !.promise = d.promise, !.posted = d.posted]
         /\ UNCHANGED <<fs, base_path_, modules_, module_path_by_id_, mods,
                        mainCalls, mainLoaded, crashed, destroyed>>

\* Js::ImportDynamic(referrer, specifier), called by the engine for an
\* import() of a running script.
ImportDynamic(ref, spec) ==
    /\ crashed = "none" /\ ~destroyed
    /\ ops < MaxOps
    /\ ops' = ops + 1
    /\ FinishRequest(ref, spec,
                     ImportDynamicRequest(StartScheduler, modules_, base_path_, ref, spec))

\* The settlement at the end of Js::ImportDynamic(path_str)
SettleImport(rs, h, st) ==
    IF st.ret = 0 THEN Reject(rs, h, st.exc) ELSE Resolve(rs, h, st.ret)

EraseNothing(imports, path_str) == imports

\* dynamic_imports_.erase(it)
Erase(imports, path_str) ==
    [q \in DOMAIN imports \ {path_str} |-> imports[q]]

\* Js::ImportDynamic(path_str) after LoadModuleByPath returned r; h is the
\* resolver taken from dynamic_imports_.
FinishTask(path_str, h, r, d) ==
    IF FailedAssert(r, d) # "none" THEN Crash(FailedAssert(r, d), "RunTask", path_str)
    ELSE /\ modules_' = r.st.modules
         /\ module_path_by_id_' = r.st.byId
         /\ mods' = r.st.mods
         /\ dynamic_imports_' = d.imports
         /\ resolvers' = SettleImport(d.resolvers, h, r.st)
         /\ task_queue_' = d.queue
         /\ mainLoaded' = mainLoaded + r.notified
         /\ last' = [NoLast EXCEPT !.op = "RunTask", !.path = path_str,
                                   !.ok = r.st.ret # 0, !.exc = r.st.exc,
                                   !.notified = r.notified,
                                   !.reads = r.st.reads, !.promise = h,
                                   !.posted = d.posted, !.module = r.st.ret,
                                   !.compiled = DOMAIN r.st.mods \ DOMAIN mods]
         /\ UNCHANGED <<fs, base_path_, mainCalls, crashed, destroyed>>

TaskLoadedBy(path_str, h, r) ==
    FinishTask(path_str, h, r,
               RequestsWhileEvaluating(
                   [StartScheduler EXCEPT !.imports = Erase(dynamic_imports_, path_str),
                                          !.queue = RemainingTasks(task_queue_)],
                   r.st, 1))

\* Js::ImportDynamic(path_str), the task at the head of the queue
RunTask ==
    /\ crashed = "none" /\ ~destroyed
    /\ task_queue_ # <<>>
    /\ UNCHANGED ops
    /\ IF NextTask(task_queue_) \notin DOMAIN dynamic_imports_
       THEN Crash("ImportDynamic: no entry in dynamic_imports_", "RunTask",
                  NextTask(task_queue_))
       ELSE TaskLoadedBy(NextTask(task_queue_), dynamic_imports_[NextTask(task_queue_)],
                         LoadModuleByPath(StartWalk(fs, base_path_),
                                          NextTask(task_queue_), FALSE))

\* The continuations js.cc attached to a pending evaluation promise, run
\* when the promise settles: Js::OnMainModuleResolve and
\* Js::OnMainModuleFailure call OnMainModuleLoaded, ...
Notifications(conts, how) ==
    Cardinality({i \in DOMAIN conts : conts[i] = "main"})

\* ... and Js::OnMainModuleFailure and Js::OnModuleFailure report the error.
Reports(conts, how, exc) ==
    IF how = "rejected" THEN [i \in DOMAIN conts |-> exc] ELSE <<>>

\* A pending evaluation promise of module id settles.
SettleEvaluation(id, how) ==
    /\ crashed = "none" /\ ~destroyed
    /\ mods[id].eval = "pending"
    /\ mods' = [mods EXCEPT ![id].eval = how, ![id].conts = <<>>]
    /\ mainLoaded' = mainLoaded + Notifications(mods[id].conts, how)
    /\ last' = [NoLast EXCEPT !.op = "SettleEvaluation", !.path = mods[id].path,
                              !.ok = how = "fulfilled", !.module = id,
                              !.exc = IF how = "rejected" THEN EvalError(mods', id)
                                      ELSE NoMsg,
                              !.reported = Reports(mods[id].conts, how,
                                                   EvalError(mods', id)),
                              !.notified = Notifications(mods[id].conts, how)]
    /\ UNCHANGED <<fs, base_path_, modules_, module_path_by_id_, dynamic_imports_,
                   resolvers, task_queue_, mainCalls, ops, crashed, destroyed>>

\* Js::~Js: the destructor clears dynamic_imports_ and modules_ and disposes
\* of the isolate, and with the object its other members go.  The task
\* queue is not the session's: the tasks posted to it stay where they are.
\* No handler of the session runs after it.
Teardown ==
    /\ crashed = "none" /\ ~destroyed
    /\ destroyed' = TRUE
    /\ dynamic_imports_' = <<>>
    /\ modules_' = <<>>
    /\ module_path_by_id_' = <<>>
    /\ mods' = <<>>
    /\ resolvers' = <<>>
    /\ last' = [NoLast EXCEPT !.op = "Teardown"]
    /\ UNCHANGED <<fs, base_path_, task_queue_, mainCalls, mainLoaded, ops, crashed>>

\* The handlers of a session that lives
Session ==
    \/ \E name \in MainNames : LoadMainModule(name)
    \/ \E ref \in Referrers, spec \in DynSpecs : ImportDynamic(ref, spec)
    \/ RunTask
    \/ \E id \in DOMAIN mods, how \in {"fulfilled", "rejected"} : SettleEvaluation(id, how)

Next ==
    \/ Session
    \/ Teardown

Spec == Init /\ [][Next]_vars

----------------------------------------------------------------------------
\* Properties

\* The handlers that load a module tree
Loads == {"LoadMainModule", "RunTask"}

\* The path a request of module id resolves to
RequestPath(ms, id, k) == Subpath(RemoveFilename(ms[id].path), ms[id].requests[k])

\* Every compiled module is the record the registry holds for its path.
CompiledOnce ==
    \A i \in DOMAIN mods :
        /\ mods[i].path \in DOMAIN modules_
        /\ modules_[mods[i].path] = i

\* A load never replaces a record of the registry, and the modules it
\* compiles are for paths the registry did not hold.
RegistryKept ==
    /\ \A p \in DOMAIN modules_ : p \in DOMAIN modules_' /\ modules_'[p] = modules_[p]
    /\ \A i \in DOMAIN mods : i \in DOMAIN mods' /\ mods'[i].path = mods[i].path
    /\ \A i \in DOMAIN mods' \ DOMAIN mods : mods'[i].path \notin DOMAIN modules_
    /\ last'.op \in Loads /\ last'.ok /\ last'.path \in DOMAIN modules_
           => last'.module = modules_[last'.path]

\* C1: across LoadMainModule calls, dynamic import requests and import
\* tasks, each path is compiled and registered at most once: a load of a
\* path the registry holds returns the record of the first load, and no
\* path is compiled a second time, whether it is loaded again or reached
\* through a second import edge.
C1_CompiledAtMostOnce == [][destroyed' \/ (RegistryKept /\ CompiledOnce')]_vars

\* A second load of a file returned the record of the first without a read.
C1_LoadedTwice ==
    /\ ops = 2 /\ crashed = "none"
    /\ last.op = "LoadMainModule" /\ last.ok
    /\ last.path \in Files
    /\ last.reads = <<>> /\ last.compiled = {}
    /\ last.module = modules_[last.path]

\* A diamond was loaded: one module is requested by two modules of one load.
C1_DiamondLoaded ==
    /\ last.op \in Loads /\ last.ok /\ Cardinality(last.compiled) = 3
    /\ \E i, j, t \in last.compiled :
          /\ i # j
          /\ \E k \in DOMAIN mods[i].requests : RequestPath(mods, i, k) = mods[t].path
          /\ \E k \in DOMAIN mods[j].requests : RequestPath(mods, j, k) = mods[t].path

RECURSIVE FileClosure(_, _, _)
\* The files a load of the paths of work reaches along the import edges.
FileClosure(files, work, seen) ==
    IF work = <<>> THEN seen
    ELSE IF Head(work) \in seen \/ Head(work) \notin DOMAIN files
         THEN FileClosure(files, Tail(work), seen)
    ELSE FileClosure(files,
                     Tail(work) \o [k \in DOMAIN files[Head(work)].imports |->
                                      Subpath(RemoveFilename(Head(work)),
                                              files[Head(work)].imports[k])],
                     seen \cup {Head(work)})

\* The files that lie on an import cycle
OnCycle(files) ==
    {p \in DOMAIN files :
        \E k \in DOMAIN files[p].imports :
            p \in FileClosure(files,
                              <<Subpath(RemoveFilename(p), files[p].imports[k])>>, {})}

\* The exceptions of a load that did not get every source
LoadErrors ==
    {"SourceUnavailable", "CompileError", "InvalidImportSpecifier",
     "UnknownVirtualModule"}

RegisteredOnce(p) ==
    /\ p \in DOMAIN modules_
    /\ Cardinality({i \in DOMAIN module_path_by_id_ : module_path_by_id_[i] = p}) = 1
    /\ Cardinality({i \in DOMAIN mods : mods[i].path = p}) = 1

\* C2: the walk of a finite import graph ends, cycles and self imports
\* included, and after a load in which every source was read and compiled
\* each module of a cycle the load reached is registered exactly once.
C2_CyclesTerminate ==
    /\ crashed # "LoadModuleTree: recursion without end"
    /\ last.op \in Loads /\ crashed = "none" /\ last.exc.kind \notin LoadErrors
           => \A p \in FileClosure(fs, <<last.path>>, {}) \cap OnCycle(fs) :
                  RegisteredOnce(p)

\* A load walked a cycle of two or more modules to its end.
C2_CycleLoaded ==
    /\ last.op \in Loads /\ last.ok /\ crashed = "none"
    /\ Cardinality(FileClosure(fs, <<last.path>>, {}) \cap OnCycle(fs)) >= 2
    /\ Cardinality(last.compiled) >= 2

\* A load walked a module that imports itself.
C2_SelfImportLoaded ==
    /\ last.op \in Loads /\ last.ok
    /\ \E i \in last.compiled :
           \E k \in DOMAIN mods[i].requests : RequestPath(mods, i, k) = mods[i].path

\* The tasks in the queue for path p
TasksFor(queue, p) == {k \in DOMAIN queue : queue[k] = p}

\* Every pending entry has one task in the queue and a pending promise of
\* its own, and every task in the queue has its entry.
OneTaskPerEntry ==
    /\ \A p \in DOMAIN dynamic_imports_ :
          /\ Cardinality(TasksFor(task_queue_, p)) = 1
          /\ dynamic_imports_[p] \in DOMAIN resolvers
          /\ resolvers[dynamic_imports_[p]].state = "pending"
          /\ resolvers[dynamic_imports_[p]].path = p
    /\ \A k \in DOMAIN task_queue_ : task_queue_[k] \in DOMAIN dynamic_imports_

\* A request for a path that has a pending entry posts nothing and returns
\* the promise of the entry.
DedupStep ==
    ops' = ops + 1 /\ last'.op = "ImportDynamic" /\ last'.ok
        /\ last'.path \in DOMAIN dynamic_imports_
    => /\ task_queue_' = task_queue_
       /\ dynamic_imports_' = dynamic_imports_
       /\ resolvers' = resolvers
       /\ last'.promise = dynamic_imports_[last'.path]
       /\ ~last'.posted

\* A settled promise keeps its outcome, and a task that ends settles the
\* promise of its entry.
SettledOnce ==
    /\ \A h \in DOMAIN resolvers :
          /\ h \in DOMAIN resolvers'
          /\ resolvers[h].state # "pending" => resolvers'[h] = resolvers[h]
    /\ last'.op = "RunTask" /\ crashed' = "none" /\ task_queue_ # <<>>
           /\ task_queue_' # task_queue_
       => /\ last'.promise = dynamic_imports_[last'.path]
          /\ resolvers'[last'.promise].state =
                 IF last'.ok THEN "fulfilled" ELSE "rejected"

\* C3: dynamic import requests that resolve to one path and are made before
\* the task for that path has run post one task, all return the same
\* promise, and that promise gets one outcome.
C3_RequestsDeduplicated ==
    [][destroyed' \/ (DedupStep /\ OneTaskPerEntry' /\ SettledOnce)]_vars

\* A second request for a path found the entry of the first: one task is in
\* the queue and the request returned the first promise.
C3_SecondRequestDeduplicated ==
    /\ ops = 2 /\ last.op = "ImportDynamic" /\ last.ok /\ ~last.posted
    /\ Len(task_queue_) = 1 /\ task_queue_[1] = last.path
    /\ dynamic_imports_[last.path] = last.promise
    /\ Len(resolvers) = 1

\* The continuations of pending evaluations that call OnMainModuleLoaded
PendingMain ==
    UNION { {<<i, k>> : k \in {k \in DOMAIN mods[i].conts : mods[i].conts[k] = "main"}}
            : i \in DOMAIN mods }

\* C4: every LoadMainModule call ends in an OnMainModuleLoaded call, made
\* by the call itself or by the continuation of a pending evaluation, and a
\* call that fails reports the exception to the delegate.
C4_MainAlwaysNotified ==
    /\ ~destroyed => mainCalls = mainLoaded + Cardinality(PendingMain)
    /\ last.op = "LoadMainModule" /\ ~last.ok
           => last.notified = 1 /\ last.exc # NoMsg /\ last.reported = <<last.exc>>
    /\ last.op = "SettleEvaluation" /\ ~last.ok /\ last.notified > 0
           => Len(last.reported) >= last.notified /\ last.exc # NoMsg

\* A LoadMainModule call ended in a failed ASSERT.
C4_MainLoadCrashed ==
    crashed # "none" /\ last.op = "LoadMainModule" /\ mainCalls > mainLoaded

\* C5: after the task of one dynamic import rejected its promise, the task
\* of an import of another path runs to its end and settles its own promise
\* by its own load: resolved with the module when the load succeeds,
\* rejected with the load's exception when it fails.
C5_FailureIsolated ==
    /\ last.op = "RunTask"
    /\ \E h \in DOMAIN resolvers :
           resolvers[h].state = "rejected" /\ resolvers[h].path # last.path
    => /\ crashed = "none"
       /\ resolvers[last.promise].path = last.path
       /\ last.ok => resolvers[last.promise].state = "fulfilled"
                     /\ resolvers[last.promise].value = last.module
       /\ ~last.ok => resolvers[last.promise].state = "rejected"
                      /\ resolvers[last.promise].err = last.exc

\* The task of an import ended in a failed ASSERT after the import of
\* another path was rejected.
C5_TaskCrashedAfterRejection ==
    /\ crashed # "none" /\ last.op = "RunTask"
    /\ \E h \in DOMAIN resolvers :
           resolvers[h].state = "rejected" /\ resolvers[h].path # last.path

\* C6: no error ends the session: every request ends in a reported failure
\* or a success, and no ASSERT fails, those of ResolveModule included.
C6_NoFatalError == crashed = "none"

\* A failed load left a module in the registry with a request whose path is
\* not in the registry.
C6_PartiallyLoaded ==
    /\ crashed = "none" /\ last.op \in Loads /\ ~last.ok
    /\ \E i \in DOMAIN mods :
          /\ mods[i].path \in DOMAIN modules_
          /\ \E k \in DOMAIN mods[i].requests :
                 RequestPath(mods, i, k) \notin DOMAIN modules_

\* A name that begins with ./ or ../
StartsRelative(name) == Len(name) >= 2 /\ name[1] \in {".", ".."}

\* The message for an invalid specifier, as the delegate or the promise
\* gets it
InvalidText(name) ==
    [kind |-> "InvalidImportSpecifier", prefix |-> "Invalid module name: '",
     name |-> name, suffix |-> "'. Valid imports must begin with ./ or ../",
     chain |-> <<>>]

RECURSIVE ModuleClosure(_, _)
\* The registered modules a module of work reaches along its requests
ModuleClosure(work, seen) ==
    IF work = <<>> THEN seen
    ELSE IF Head(work) \in seen THEN ModuleClosure(Tail(work), seen)
    ELSE ModuleClosure(
             Tail(work) \o
                 [k \in DOMAIN mods[Head(work)].requests |->
                     IF RequestPath(mods, Head(work), k) \in DOMAIN modules_
                     THEN modules_[RequestPath(mods, Head(work), k)]
                     ELSE Head(work)],
             seen \cup {Head(work)})

\* The reads of the last handler followed no invalid specifier.
ReadsFollowValid ==
    \A k \in DOMAIN last.reads :
        last.reads[k].via = NoSpec \/ StartsRelative(last.reads[k].via)

\* A dynamic request with an invalid specifier returned a promise rejected
\* with the message, and stored and posted nothing.
InvalidRequestRejected ==
    last.op = "ImportDynamic" /\ crashed = "none" /\ ~StartsRelative(last.spec)
    => /\ ~last.ok /\ ~last.posted /\ last.path = <<>>
       /\ resolvers[last.promise].state = "rejected"
       /\ resolvers[last.promise].err = InvalidText(last.spec)

\* C7: a specifier that does not begin with ./ or ../ is rejected with the
\* message that holds its text, before any read for it; a load that meets
\* one in a static import ends without a module, so no load that returns a
\* module has such a specifier among the requests of its modules.
C7_InvalidSpecifierRejected ==
    /\ ReadsFollowValid
    /\ InvalidRequestRejected
    /\ last.exc.kind = "InvalidImportSpecifier"
           => ~last.ok /\ last.exc = InvalidText(last.exc.name)
              /\ ~StartsRelative(last.exc.name)
    /\ last.op \in Loads /\ last.ok
           => \A i \in ModuleClosure(<<last.module>>, {}) :
                  \A k \in DOMAIN mods[i].requests :
                      StartsRelative(mods[i].requests[k])

\* A load returned a module that has an invalid specifier among its
\* requests.
C7_InvalidSpecifierLoaded ==
    /\ last.op \in Loads /\ last.ok /\ crashed = "none"
    /\ \E k \in DOMAIN mods[last.module].requests :
           ~StartsRelative(mods[last.module].requests[k])
    /\ mods[last.module].status = "evaluated"

VirtualTokens == { <<"--console">>, <<"--welcome">> }

\* C8: a load of --console or --welcome gets the embedded source without a
\* read, whatever the base path; a load of another name that begins with --
\* fails with the unknown-module message and without a read.
C8_VirtualTokens ==
    /\ \A k \in DOMAIN last.reads : ~HasDashPrefix(last.reads[k].path)
    /\ \A b \in BasePaths, t \in VirtualTokens : MainModulePath(b, t) = t
    /\ last.op \in Loads /\ last.path \in VirtualTokens
           => /\ last.reads = <<>> /\ last.ok
              /\ last.path \in DOMAIN modules_
              /\ mods[modules_[last.path]].source = "embedded"
              /\ mods[modules_[last.path]].path = last.path
    /\ last.op \in Loads /\ HasDashPrefix(last.path) /\ last.path \notin VirtualTokens
           => /\ last.reads = <<>> /\ ~last.ok
              /\ last.exc.kind = "UnknownVirtualModule"
              /\ last.exc.name = last.path
              /\ last.path \notin DOMAIN modules_

\* --console was loaded under the base path /app/lib.
C8_ConsoleLoaded ==
    /\ last.op = "LoadMainModule" /\ last.path = <<"--console">> /\ last.ok
    /\ base_path_ = <<"/", "app", "lib">>
    /\ last.compiled # {} /\ last.reads = <<>>

\* --bogus was loaded and failed.
C8_UnknownTokenFailed ==
    /\ last.op = "LoadMainModule" /\ last.path = <<"--bogus">> /\ ~last.ok
    /\ last.exc.kind = "UnknownVirtualModule"

\* The path a line of the chain names
ChainPath(k) == LexicallyNormal(Join(base_path_, last.exc.chain[k].path))

\* C9: when a source is unavailable, the chain of the diagnostic is the
\* stack of the load read from the inside: first the failing module as
\* "loading", then its importers as "from" up to the root of the load, each
\* line an importer of the line before it.
C9_ChainInnermostFirst ==
    last.exc.kind = "SourceUnavailable"
    => /\ Len(last.exc.chain) >= 1
       /\ \A k \in DOMAIN last.exc.chain :
              last.exc.chain[k].tag = IF k = 1 THEN "loading" ELSE "from"
       /\ ChainPath(1) = Absolute(last.exc.name)
       /\ last.reads # <<>> /\ Last(last.reads).path = last.exc.name
       /\ ~ReadFile(fs, last.exc.name)
       /\ ChainPath(Len(last.exc.chain)) = Absolute(last.path)
       /\ \A k \in 1..(Len(last.exc.chain) - 1) :
              \E i \in DOMAIN mods :
                  /\ Absolute(mods[i].path) = ChainPath(k + 1)
                  /\ mods[i].path \in DOMAIN modules_
                  /\ \E j \in DOMAIN mods[i].requests :
                         Absolute(RequestPath(mods, i, j)) = ChainPath(k)

\* A source two imports below the root was unavailable.
C9_MissingAtDepthTwo ==
    /\ last.exc.kind = "SourceUnavailable" /\ Len(last.exc.chain) = 3
    /\ last.op = "LoadMainModule" /\ last.path = MainJs
    /\ last.exc.name = HelpersJs

\* The first invalid request of a module the last load compiled
FirstInvalid(i, k) ==
    /\ k \in DOMAIN mods[i].requests
    /\ ~StartsRelative(mods[i].requests[k])
    /\ \A j \in 1..(k - 1) : StartsRelative(mods[i].requests[j])

\* The statement about a load or a request, given the names accepted:
\* a dynamic request is accepted when its specifier is, and is else
\* rejected with the message; the static imports a load follows are
\* accepted ones, and one that is not accepted, in a module the load
\* compiles, ends the load without a module.
SpecifiersChecked(Accepted(_)) ==
    /\ last.op = "ImportDynamic" /\ crashed = "none"
           => /\ last.ok <=> Accepted(last.spec)
              /\ ~Accepted(last.spec)
                     => /\ resolvers[last.promise].state = "rejected"
                        /\ resolvers[last.promise].err = InvalidText(last.spec)
    /\ \A k \in DOMAIN last.reads :
           last.reads[k].via = NoSpec \/ Accepted(last.reads[k].via)
    /\ \A i \in last.compiled :
           \A k \in DOMAIN mods[i].requests :
               ~Accepted(mods[i].requests[k]) => ~last.ok
    /\ last.exc.kind = "InvalidImportSpecifier"
           => /\ last.exc = InvalidText(last.exc.name)
              /\ ~Accepted(last.exc.name)
              /\ \E i \in last.compiled :
                     \E k \in DOMAIN mods[i].requests :
                         FirstInvalid(i, k) /\ mods[i].requests[k] = last.exc.name

AcceptedAsWritten(name) == StartsRelative(name) \/ name \in VirtualTokens

EvalErrors == {"RuntimeException", "UnhandledRejection"}

\* No promise of a dynamic import is resolved with a module whose evaluation
\* failed.
NoFailedNamespace ==
    \A h \in DOMAIN resolvers :
        resolvers[h].state = "fulfilled"
        => mods[resolvers[h].value].eval \notin {"threw", "rejected"}

\* The task whose load ended in an evaluation error rejected the promise of
\* its import with that error and left every other promise as it was.
OwnPromiseRejected ==
    last'.op = "RunTask" /\ crashed' = "none" /\ last'.exc.kind \in EvalErrors
    => /\ resolvers[last'.promise].state = "pending"
       /\ resolvers' = [resolvers EXCEPT ![last'.promise].state = "rejected",
                                         ![last'.promise].err = last'.exc]

\* C11: an evaluation error of a dynamically imported module, be it thrown,
\* an already rejected completion or a pending completion rejected later,
\* rejects the promise of that import and no other, and no import promise
\* is resolved with the namespace of a module whose evaluation fails.
C11_EvaluationErrorRejectsImport ==
    [][destroyed' \/ (OwnPromiseRejected /\ NoFailedNamespace')]_vars

\* The pending completion of a dynamically imported module was rejected
\* after the task had resolved the import promise with its namespace.
C11_ResolvedThenRejected ==
    /\ last.op = "SettleEvaluation" /\ ~last.ok
    /\ \E h \in DOMAIN resolvers :
           /\ resolvers[h].state = "fulfilled" /\ resolvers[h].value = last.module
           /\ mods[last.module].eval = "rejected"

\* The error of the last load was surfaced once: LoadMainModule reported it
\* to the delegate, a task rejected the promise of its import with it.
SurfacedOnce ==
    IF last.op = "LoadMainModule" THEN last.reported = <<last.exc>>
    ELSE /\ last.reported = <<>>
         /\ resolvers[last.promise].state = "rejected"
         /\ resolvers[last.promise].err = last.exc

\* The message of the last error carries the chain of the load: the failing
\* path first, as "loading", and the root of the load last.
ChainToRoot ==
    /\ Len(last.exc.chain) >= 1
    /\ last.exc.chain[1].tag = "loading"
    /\ ChainPath(Len(last.exc.chain)) = Absolute(last.path)

\* The message of the last error names the root of the load, the one path
\* of the load, in its text.
NamesOnlyPath == last.exc.chain = <<>> /\ last.exc.name = last.path

\* C12: every load-time error (invalid specifier, unknown virtual module,
\* source unavailable, compile error) is surfaced once per load request, and
\* its message carries the path chain: at least the failing path, and the
\* whole chain when the load has more than one path on its stack.
C12_LoadErrorsDecorated ==
    last.op \in Loads /\ crashed = "none" /\ last.exc.kind \in LoadErrors
    => SurfacedOnce /\ (ChainToRoot \/ NamesOnlyPath)

\* A load ended with the error of an invalid specifier, and the message has
\* no chain.
C12_InvalidSpecifierWithoutChain ==
    /\ last.op \in Loads /\ crashed = "none"
    /\ last.exc.kind = "InvalidImportSpecifier" /\ last.exc.chain = <<>>
    /\ SurfacedOnce

\* The script ids that module_path_by_id_ maps to path p
IdsOf(p) == {id \in DOMAIN module_path_by_id_ : module_path_by_id_[id] = p}

\* C13: the id index and the registry agree in every reachable state: each
\* script id of module_path_by_id_ maps to a path of modules_, each path of
\* modules_ is the image of exactly one script id, that of its module, and
\* the ASSERT that the id of a newly compiled module is new never fails.
C13_IndexesAgree ==
    /\ \A id \in DOMAIN module_path_by_id_ : module_path_by_id_[id] \in DOMAIN modules_
    /\ \A p \in DOMAIN modules_ : IdsOf(p) = {modules_[p]}
    /\ crashed # "LoadModuleTree: script id already registered"

\* A load compiled and registered three modules.
C13_ThreeRegistered ==
    /\ Cardinality(last.compiled) = 3
    /\ Cardinality(DOMAIN modules_) = 3 /\ Cardinality(DOMAIN module_path_by_id_) = 3

\* The paths that have a pending entry or a task in the queue
Requested == DOMAIN dynamic_imports_ \cup {task_queue_[k] : k \in DOMAIN task_queue_}

ValidRequest == last'.op = "ImportDynamic" /\ ops' = ops + 1 /\ last'.ok

\* C15: a dynamic import request with a valid specifier loads nothing in
\* the turn of the request: the registry and the id index are as before,
\* no module is compiled, instantiated or evaluated, and the promise it
\* returns is pending, also when the path it asks for is registered.
C15_RequestNeverLoads ==
    [][/\ crashed' # "ImportDynamic: referrer not in modules_"
       /\ ValidRequest
          => /\ modules_' = modules_
             /\ module_path_by_id_' = module_path_by_id_
             /\ mods' = mods
             /\ last'.promise \in DOMAIN resolvers'
             /\ resolvers'[last'.promise].state = "pending"]_vars

\* A request for a registered path posted a task and returned a pending
\* promise.
C15_RegisteredPathDeferred ==
    /\ last.op = "ImportDynamic" /\ last.ok /\ last.posted
    /\ last.path \in DOMAIN modules_
    /\ resolvers[last.promise].state = "pending"
    /\ last.path \in DOMAIN dynamic_imports_

\* The step is a dynamic import request with an invalid specifier.
InvalidRequest ==
    last'.op = "ImportDynamic" /\ ops' = ops + 1 /\ ~StartsRelative(last'.spec)

\* C16: a dynamic import request with an invalid specifier returns a new
\* promise that is already rejected with the invalid-specifier message, and
\* leaves dynamic_imports_, the task queue and the registry as they were.
C16_InvalidRequestRejectedAtOnce ==
    [][InvalidRequest
       => /\ crashed' = "none"
          /\ resolvers' = Append(resolvers, [state |-> "rejected", path |-> <<>>,
                                             value |-> 0,
                                             err |-> InvalidText(last'.spec)])
          /\ last'.promise = Len(resolvers')
          /\ dynamic_imports_' = dynamic_imports_
          /\ task_queue_' = task_queue_
          /\ modules_' = modules_
          /\ module_path_by_id_' = module_path_by_id_]_vars

\* A request with a specifier that has no ./ or ../ was made while an import
\* was pending, and its promise is rejected.
C16_BareRequestWhilePending ==
    /\ last.op = "ImportDynamic" /\ last.spec = Bare
    /\ resolvers[last.promise].state = "rejected"
    /\ Len(task_queue_) = 1 /\ DOMAIN dynamic_imports_ # {}

\* The task that ran settled the promise h of its entry by its load.
SettledByLoad(h) ==
    /\ resolvers[h].state = "pending"
    /\ resolvers'[h].state = IF last'.ok THEN "fulfilled" ELSE "rejected"
    /\ last'.ok => resolvers'[h].value = last'.module
    /\ ~last'.ok => resolvers'[h].err = last'.exc
    /\ last'.path \in DOMAIN dynamic_imports_' => dynamic_imports_'[last'.path] # h
    /\ \A g \in DOMAIN resolvers :
           resolvers[g].state # "pending" => resolvers'[g] = resolvers[g]

\* C17: every run of a posted task settles the promise of its import, once:
\* the task finds its entry, removes it, loads the path, and resolves the
\* promise with the module or rejects it with the exception of the load; so
\* with a queue that keeps running its tasks no promise of a valid request
\* and no entry stays pending for ever.
C17_TaskSettlesPromise ==
    [][last'.op = "RunTask"
       => /\ crashed' = "none"
          /\ last'.path \in DOMAIN dynamic_imports_
          /\ SettledByLoad(dynamic_imports_[last'.path])]_vars

\* A task ended in a failed ASSERT: its entry is still in dynamic_imports_
\* and the promise of its import is pending, and nothing runs any more.
C17_PromiseLeftPending ==
    /\ crashed # "none" /\ last.op = "RunTask"
    /\ last.path \in DOMAIN dynamic_imports_
    /\ resolvers[dynamic_imports_[last.path]].state = "pending"
    /\ task_queue_ # <<>>

\* Sequence s is the beginning of sequence t.
IsPrefix(s, t) == Len(s) <= Len(t) /\ SubSeq(t, 1, Len(s)) = s

\* The promises of valid requests made before that of promise g
PostedBefore(g) == {h \in 1..(g - 1) : resolvers[h].path # <<>>}

\* C18: the tasks of dynamic imports run in the order they were posted: a
\* step that is not a task only adds to the back of the queue, a task that
\* runs is the one posted first among those waiting, and when it starts the
\* promise of every request that posted before it is settled.
C18_TasksRunInPostOrder ==
    [][destroyed' \/ crashed' # "none" \/
       IF last'.op = "RunTask"
       THEN /\ task_queue_ # <<>> /\ last'.path = task_queue_[1]
            /\ IsPrefix(SubSeq(task_queue_, 2, Len(task_queue_)), task_queue_')
            /\ \A h \in PostedBefore(dynamic_imports_[last'.path]) :
                   resolvers[h].state # "pending"
       ELSE IsPrefix(task_queue_, task_queue_')]_vars

\* Two requests posted tasks for two paths; the task of the first ran and
\* settled its promise, the task of the second waits with its promise
\* pending.
C18_FirstRanSecondWaits ==
    /\ last.op = "RunTask" /\ Len(resolvers) = 2
    /\ resolvers[1].path = last.path /\ resolvers[1].state # "pending"
    /\ resolvers[2].path # last.path /\ resolvers[2].state = "pending"
    /\ task_queue_ = <<resolvers[2].path>>

\* The step keeps every entry of the registry and of the id index, and the
\* engine module each of them refers to is the one compiled for its path.
EntriesKept ==
    /\ \A p \in DOMAIN modules_ : p \in DOMAIN modules_' /\ modules_'[p] = modules_[p]
    /\ \A id \in DOMAIN module_path_by_id_ :
           /\ id \in DOMAIN module_path_by_id_'
           /\ module_path_by_id_'[id] = module_path_by_id_[id]
           /\ id \in DOMAIN mods' /\ mods'[id].path = mods[id].path
           /\ mods'[id].requests = mods[id].requests

\* After a load that failed, every module the load compiled is registered.
CompiledStayRegistered ==
    last'.op \in Loads /\ ~last'.ok /\ crashed' = "none"
    => \A i \in last'.compiled :
           /\ mods'[i].path \in DOMAIN modules_' /\ modules_'[mods'[i].path] = i
           /\ i \in DOMAIN module_path_by_id_'
           /\ module_path_by_id_'[i] = mods'[i].path

\* C19: the registry only grows while the session lives: no step other
\* than the teardown removes or replaces an entry of modules_ or of
\* module_path_by_id_, and after a load that fails at any depth every module
\* the load compiled before the failure is registered, with its record.
C19_RegistryOnlyGrows ==
    [][IF last'.op = "Teardown"
       THEN modules_' = <<>> /\ module_path_by_id_' = <<>>
       ELSE EntriesKept /\ CompiledStayRegistered]_vars

\* A load of main.js failed two imports down, at a source that is not
\* there, and the two modules compiled before the failure are registered.
C19_FailedLoadLeftTwo ==
    /\ last.op \in Loads /\ ~last.ok /\ last.exc.kind = "SourceUnavailable"
    /\ Cardinality(last.compiled) = 2
    /\ \A i \in last.compiled : mods[i].path \in DOMAIN modules_
    /\ Cardinality(DOMAIN modules_) = 2

\* The OnMainModuleLoaded calls made so far and those that the
\* continuations of pending evaluations will make
MainOwed == mainLoaded + Cardinality(PendingMain)

\* C20: a LoadMainModule call leads to at most one OnMainModuleLoaded call,
\* made by the call itself (its failure branch, or LoadModuleByPath for an
\* evaluation already fulfilled) or left to one continuation of a pending
\* evaluation, which makes it once when the evaluation settles; a dynamic
\* import request and the task of a dynamic import make none and leave
\* none to a continuation.
C20_MainNotifiedAtMostOnce ==
    [][/\ last'.op = "LoadMainModule"
          => /\ mainLoaded' >= mainLoaded
             /\ Cardinality(PendingMain') >= Cardinality(PendingMain)
             /\ MainOwed' <= MainOwed + 1
             /\ last'.notified = mainLoaded' - mainLoaded
       /\ last'.op = "SettleEvaluation"
          => MainOwed' = MainOwed /\ last'.notified = mainLoaded' - mainLoaded
       /\ last'.op \in {"ImportDynamic", "RunTask"}
          => /\ mainLoaded' = mainLoaded /\ PendingMain' = PendingMain
             /\ last'.notified = 0
       /\ last'.op = "Teardown" => mainLoaded' = mainLoaded
       /\ mainLoaded' <= mainCalls']_vars

\* After a main module was loaded and notified, the task of a dynamic
\* import loaded a module whose evaluation was fulfilled at once, and made
\* no OnMainModuleLoaded call.
C20_TaskLoadedWithoutNotice ==
    /\ last.op = "RunTask" /\ last.ok /\ last.compiled # {}
    /\ mods[last.module].eval = "fulfilled"
    /\ mainCalls = 1 /\ mainLoaded = 1 /\ PendingMain = {}

====
